---- MODULE Spec2Model ----
(***************************************************************************)
(* Model of megatec-ups-control (src/src/lib.rs): the MegatecUps command   *)
(* layer over USB string-descriptor reads, its character filter, the       *)
(* minutes -> time-code function and the status-line parser.               *)
(*                                                                         *)
(* Strings are sequences of code points; a byte b converted with           *)
(* `b as char` is the code point of the same number (Latin-1).             *)
(***************************************************************************)
EXTENDS Integers, Sequences, FiniteSets

VARIABLES
    overflow_checks, \* build profile: TRUE = arithmetic overflow panics, FALSE = wraps
    pc,              \* position of the single caller
    op,              \* public method being executed
    minutes,         \* argument of test_with_time
    transfers,       \* control transfers and sleeps issued by the current call
    reply,           \* what read_control returned for the latest transfer
    result           \* value returned by the call

vars == <<overflow_checks, pc, op, minutes, transfers, reply, result>>

-----------------------------------------------------------------------------
(* Bounds of the device's replies.                                         *)

MaxLen == 4        \* longest raw reply enumerated byte by byte
MaxTokens == 8     \* most tokens in an enumerated status line

-----------------------------------------------------------------------------
(* Constants of lib.rs.                                                    *)

ASCII_MIN == 32
ASCII_MAX == 126
CHAR_QUOTE == 34
CHAR_BACKTICK == 96
CHAR_PAREN == 40

U8 == 0..255

-----------------------------------------------------------------------------
(* Result<T, UpsError>.                                                    *)

Ok(v) == [kind |-> "Ok", val |-> v]
Err(k, e) == [kind |-> k, val |-> e]
UNIT == "()"
NoResult == [kind |-> "None", val |-> ""]

-----------------------------------------------------------------------------
(* is_valid_char and the filter of get_string_descriptor.                  *)

is_valid_char_max_exclusive(c) ==
    c >= ASCII_MIN /\ c < ASCII_MAX /\ c # CHAR_QUOTE /\ c # CHAR_BACKTICK /\ c # CHAR_PAREN

is_valid_char(c) ==
    c >= ASCII_MIN /\ c <= ASCII_MAX /\ c # CHAR_QUOTE /\ c # CHAR_BACKTICK /\ c # CHAR_PAREN

\* `c as char` for a u8: the code point with the same number.
as_char(c) == c

\* vec![0u8; length] with the bytes the device transferred written at the front.
read_control(length, rep) ==
    [i \in 1..length |-> IF rep.kind = "Ok" /\ i <= Len(rep.bytes) THEN rep.bytes[i] ELSE 0]

get_string_descriptor_min2(index, length, rep) ==
    LET data == read_control(length, rep)
        kept == SelectSeq(data, is_valid_char)
    IN  IF rep.kind = "Err" THEN Err("Usb", rep.err)
        ELSE IF Len(rep.bytes) >= 2
             THEN Ok([i \in 1..Len(kept) |-> as_char(kept[i])])
             ELSE Err("InvalidResponse", "")

get_string_descriptor(index, length, rep) ==
    LET data == read_control(length, rep)
        kept == SelectSeq(data, is_valid_char)
    IN  IF rep.kind = "Err" THEN Err("Usb", rep.err)
        ELSE IF Len(rep.bytes) >= 3
             THEN Ok([i \in 1..Len(kept) |-> as_char(kept[i])])
             ELSE Err("InvalidResponse", "")

-----------------------------------------------------------------------------
(* calculate_time in u8 arithmetic.  An operation whose mathematical       *)
(* result leaves 0..255 panics when the build checks overflow and wraps    *)
(* modulo 2^8 otherwise.                                                   *)

U8Val(x) == [v |-> x % 256, overflow |-> x < 0 \/ x > 255]
u8_add(a, b) == [v |-> (a.v + b.v) % 256,
                 overflow |-> a.overflow \/ b.overflow \/ a.v + b.v > 255]
u8_sub(a, b) == [v |-> (a.v - b.v) % 256,
                 overflow |-> a.overflow \/ b.overflow \/ a.v - b.v < 0]
u8_mul(a, b) == [v |-> (a.v * b.v) % 256,
                 overflow |-> a.overflow \/ b.overflow \/ a.v * b.v > 255]
u8_div(a, b) == [v |-> a.v \div b.v, overflow |-> a.overflow \/ b.overflow]

time_value(m) ==
    IF m >= 1 /\ m <= 9 THEN u8_add(U8Val(100), U8Val(m))
    ELSE IF m >= 10 /\ m <= 19 THEN u8_add(U8Val(125), u8_sub(U8Val(m), U8Val(19)))
    ELSE LET range_start ==
                 u8_add(u8_mul(u8_div(u8_sub(U8Val(m), U8Val(20)), U8Val(10)), U8Val(10)),
                        U8Val(20))
         IN  u8_add(U8Val(132), u8_mul(u8_sub(U8Val(m), range_start), U8Val(7)))

calculate_time_descending(m, checks) ==
    IF m = 0 \/ m > 99 THEN Err("InvalidTime", "")
    ELSE IF m >= 10 /\ m <= 19 THEN Ok(125 - (m - 10))
    ELSE IF time_value(m).overflow /\ checks THEN Err("Panic", "attempt to subtract with overflow")
    ELSE Ok(time_value(m).v)

calculate_time(m, checks) ==
    IF m = 0 \/ m > 99 THEN Err("InvalidTime", "")
    ELSE IF time_value(m).overflow /\ checks THEN Err("Panic", "attempt to subtract with overflow")
    ELSE Ok(time_value(m).v)

-----------------------------------------------------------------------------
(* str::split_whitespace: maximal runs of characters that are not Unicode  *)
(* White_Space (the members below are those with code points up to 255).   *)

is_whitespace(c) == c \in {9, 10, 11, 12, 13, 32, 133, 160}

RECURSIVE split_from(_, _, _, _)
\* s: the string, i: next position, cur: token being read, acc: tokens read
split_from(s, i, cur, acc) ==
    IF i > Len(s) THEN (IF cur = <<>> THEN acc ELSE Append(acc, cur))
    ELSE IF is_whitespace(s[i])
         THEN split_from(s, i + 1, <<>>, IF cur = <<>> THEN acc ELSE Append(acc, cur))
         ELSE split_from(s, i + 1, Append(cur, s[i]), acc)

split_whitespace(s) == split_from(s, 1, <<>>, <<>>)

\* Iterator::take(n)
take(xs, n) == SubSeq(xs, 1, IF Len(xs) < n THEN Len(xs) ELSE n)

-----------------------------------------------------------------------------
(* <f64 as FromStr>::from_str, for tokens short enough that the nearest    *)
(* double of a decimal numeral determines the numeral's value: the value   *)
(* is kept as sign, mantissa and decimal exponent with the mantissa's      *)
(* trailing zeros removed.                                                 *)
(*   Float  ::= Sign? ( 'inf' | 'infinity' | 'nan' | Number )              *)
(*   Number ::= ( Digit+ | Digit+ '.' Digit* | Digit* '.' Digit+ ) Exp?    *)
(*   Exp    ::= 'e' Sign? Digit+          (letters in either case)         *)

is_digit(c) == c >= 48 /\ c <= 57
to_ascii_lowercase(c) == IF c >= 65 /\ c <= 90 THEN c + 32 ELSE c

RECURSIVE digits_end(_, _)
\* first position at or after i that holds no digit
digits_end(s, i) == IF i <= Len(s) /\ is_digit(s[i]) THEN digits_end(s, i + 1) ELSE i

RECURSIVE digits_value(_, _, _, _)
\* the number written by s[i..j-1], after the digits already read as acc
digits_value(s, i, j, acc) ==
    IF i >= j THEN acc ELSE digits_value(s, i + 1, j, acc * 10 + (s[i] - 48))

RECURSIVE normalize(_, _)
normalize(mant, exp) ==
    IF mant = 0 THEN [mant |-> 0, exp |-> 0]
    ELSE IF mant % 10 = 0 THEN normalize(mant \div 10, exp + 1)
    ELSE [mant |-> mant, exp |-> exp]

F64(class, neg, mant, exp) == [class |-> class, neg |-> neg, mant |-> mant, exp |-> exp]
ParseFloatError == [ok |-> FALSE, val |-> F64("error", FALSE, 0, 0)]
Parsed(v) == [ok |-> TRUE, val |-> v]

INF_WORD == <<105, 110, 102>>
INFINITY_WORD == <<105, 110, 102, 105, 110, 105, 116, 121>>
NAN_WORD == <<110, 97, 110>>

parse_inf_nan(s, neg) ==
    LET low == [i \in 1..Len(s) |-> to_ascii_lowercase(s[i])]
    IN  IF low = INF_WORD \/ low = INFINITY_WORD THEN Parsed(F64("inf", neg, 0, 0))
        ELSE IF low = NAN_WORD THEN Parsed(F64("nan", neg, 0, 0))
        ELSE ParseFloatError

parse_number(s, neg) ==
    LET intEnd == digits_end(s, 1)
        hasDot == intEnd <= Len(s) /\ s[intEnd] = 46
        fracStart == IF hasDot THEN intEnd + 1 ELSE intEnd
        fracEnd == IF hasDot THEN digits_end(s, fracStart) ELSE intEnd
        nDigits == (intEnd - 1) + (fracEnd - fracStart)
        hasExp == fracEnd <= Len(s) /\ s[fracEnd] \in {101, 69}
        expSigned == hasExp /\ fracEnd + 1 <= Len(s) /\ s[fracEnd + 1] \in {43, 45}
        expStart == IF expSigned THEN fracEnd + 2 ELSE fracEnd + 1
        expEnd == IF hasExp THEN digits_end(s, expStart) ELSE fracEnd
        expDigits == IF hasExp THEN expEnd - expStart ELSE 0
        expAbs == IF hasExp THEN digits_value(s, expStart, expEnd, 0) ELSE 0
        expVal == IF expSigned /\ s[fracEnd + 1] = 45 THEN 0 - expAbs ELSE expAbs
        mant == digits_value(s, fracStart, fracEnd, digits_value(s, 1, intEnd, 0))
        n == normalize(mant, expVal - (fracEnd - fracStart))
    IN  IF nDigits = 0 THEN ParseFloatError
        ELSE IF hasExp /\ expDigits = 0 THEN ParseFloatError
        ELSE IF expEnd # Len(s) + 1 THEN ParseFloatError
        ELSE Parsed(F64("finite", neg, n.mant, n.exp))

parse_f64(s) ==
    IF s = <<>> THEN ParseFloatError
    ELSE LET signed == s[1] \in {43, 45}
             neg == s[1] = 45
             body == IF signed THEN Tail(s) ELSE s
         IN  IF body = <<>> THEN ParseFloatError
             ELSE IF parse_number(body, neg).ok THEN parse_number(body, neg)
             ELSE parse_inf_nan(body, neg)

-----------------------------------------------------------------------------
(* UpsStatus::from_str.                                                    *)

RECURSIVE collect_parsed(_, _, _)
\* map(parse).collect::<Result<Vec<f64>, _>>(): stops at the first token that fails
collect_parsed(toks, i, acc) ==
    IF i > Len(toks) THEN [ok |-> TRUE, values |-> acc]
    ELSE IF parse_f64(toks[i]).ok
         THEN collect_parsed(toks, i + 1, Append(acc, parse_f64(toks[i]).val))
         ELSE [ok |-> FALSE, values |-> <<>>]

UpsStatus(values) ==
    [input_voltage |-> values[1],
     input_fault_voltage |-> values[2],
     output_voltage |-> values[3],
     output_current |-> values[4],
     input_frequency |-> values[5],
     battery_voltage |-> values[6],
     temperature |-> values[7]]

from_str_all_tokens(status) ==
    LET parsed == collect_parsed(split_whitespace(status), 1, <<>>)
    IN  IF ~parsed.ok THEN Err("InvalidResponse", "")
        ELSE IF Len(parsed.values) # 7 THEN Err("InvalidResponse", "")
        ELSE Ok(UpsStatus(parsed.values))

from_str(status) ==
    LET parsed == collect_parsed(take(split_whitespace(status), 7), 1, <<>>)
    IN  IF ~parsed.ok THEN Err("InvalidResponse", "")
        ELSE IF Len(parsed.values) # 7 THEN Err("InvalidResponse", "")
        ELSE Ok(UpsStatus(parsed.values))

-----------------------------------------------------------------------------
(* The device: what handle.read_control can return for one transfer.       *)

UsbErrors == {"Timeout", "Pipe", "NoDevice"}
UsbFailure(e) == [kind |-> "Err", err |-> e, bytes |-> <<>>]
Transferred(bs) == [kind |-> "Ok", err |-> "", bytes |-> bs]
NoReply == [kind |-> "None", err |-> "", bytes |-> <<>>]

\* type byte 3, the quote, and a printable byte
ByteSamples == {3, 34, 65}
RawPayloads == UNION {[1..n -> ByteSamples] : n \in 0..MaxLen}
\* a descriptor header followed by one byte at or next to each edge of the filter
EdgeBytes == {0, 31, 32, 33, 34, 35, 39, 40, 41, 95, 96, 97, 125, 126, 127, 128, 255}
SingleBytePayloads == {<<4, 3, b>> : b \in EdgeBytes}


\* "230.0 195.0 230.0 50 50.0 13.6 35.0" and the flag field "00001001"
BaseTokens ==
    << <<50, 51, 48, 46, 48>>, <<49, 57, 53, 46, 48>>, <<50, 51, 48, 46, 48>>,
       <<53, 48>>, <<53, 48, 46, 48>>, <<49, 51, 46, 54>>, <<51, 53, 46, 48>>,
       <<48, 48, 48, 48, 49, 48, 48, 49>> >>
BaseToken(i) == IF i <= Len(BaseTokens) THEN BaseTokens[i] ELSE <<48>>

\* "x", ".", "1e2", "-.5"
AltTokens == { <<120>>, <<46>>, <<49, 101, 50>>, <<45, 46, 53>> }

\* plain:  header (4, 3), tokens separated by one space
\* device: header (4, 3), "(" before the line, two spaces between tokens, CR after
\* counted: header (48, 3), a count byte in the printable range, then as plain
LineStyles == {"plain", "device", "counted"}
StyleHeader(style) == IF style = "counted" THEN <<48, 3>> ELSE <<4, 3>>
StylePrefix(style) == IF style = "device" THEN <<40>> ELSE <<>>
StyleSeparator(style) == IF style = "device" THEN <<32, 32>> ELSE <<32>>
StyleSuffix(style) == IF style = "device" THEN <<13>> ELSE <<>>

RECURSIVE JoinTokens(_, _, _)
JoinTokens(toks, i, sep) ==
    IF i > Len(toks) THEN <<>>
    ELSE IF i = Len(toks) THEN toks[i]
    ELSE toks[i] \o sep \o JoinTokens(toks, i + 1, sep)

\* k tokens of the base line, the j-th (if any) replaced by alt
LineTokens(k, j, alt) == [i \in 1..k |-> IF i = j THEN alt ELSE BaseToken(i)]
StatusLine(k, j, alt, style) ==
    StyleHeader(style) \o StylePrefix(style) \o JoinTokens(LineTokens(k, j, alt), 1, StyleSeparator(style))
        \o StyleSuffix(style)

StatusPayloads ==
    {StatusLine(k, 0, <<>>, style) : k \in 0..MaxTokens, style \in LineStyles}
    \cup
    {StatusLine(c[1], c[2], alt, style) :
        c \in {d \in (1..MaxTokens) \X (1..MaxTokens) : d[2] <= d[1]},
        alt \in AltTokens, style \in LineStyles}

\* Status lines are enumerated for the reads whose decoded string is used
\* (name, status, rating); the other reads only use the transferred count.
Payloads(index) ==
    IF index \in {2, 3, 13}
    THEN RawPayloads \cup SingleBytePayloads \cup StatusPayloads
    ELSE RawPayloads \cup SingleBytePayloads

\* a transfer fails, or fills at most `length` bytes of the buffer
Replies(index, length) ==
    {UsbFailure(e) : e \in UsbErrors}
    \cup {Transferred(bs) : bs \in {b \in Payloads(index) : Len(b) <= length}}

-----------------------------------------------------------------------------
(* The caller: one public method at a time on an open MegatecUps.          *)

ReadEv(index, length) == [ev |-> "read", index |-> index, length |-> length]
\* std::thread::sleep(Duration::from_secs(1)); length holds the seconds
SleepEv == [ev |-> "sleep", index |-> 0, length |-> 1]

Init ==
    /\ overflow_checks \in BOOLEAN
    /\ pc = "idle"
    /\ op = "none"
    /\ minutes = 0
    /\ transfers = <<>>
    /\ reply = NoReply
    /\ result = NoResult

\* self.get_string_descriptor(index, length)
StringCommand(name, index, length) ==
    /\ \E r \in Replies(index, length) :
        /\ reply' = r
        /\ result' = get_string_descriptor(index, length, r)
    /\ op' = name
    /\ transfers' = <<ReadEv(index, length)>>
    /\ pc' = "done"
    /\ UNCHANGED <<overflow_checks, minutes>>

\* self.get_string_descriptor(index, length)?; Ok(())
UnitCommand(name, index, length) ==
    /\ \E r \in Replies(index, length) :
        /\ reply' = r
        /\ result' = IF get_string_descriptor(index, length, r).kind = "Ok"
                     THEN Ok(UNIT)
                     ELSE get_string_descriptor(index, length, r)
    /\ op' = name
    /\ transfers' = <<ReadEv(index, length)>>
    /\ pc' = "done"
    /\ UNCHANGED <<overflow_checks, minutes>>

get_name ==
    /\ pc = "idle"
    /\ StringCommand("get_name", 2, 256)

get_rating ==
    /\ pc = "idle"
    /\ StringCommand("get_rating", 13, 256)

test ==
    /\ pc = "idle"
    /\ UnitCommand("test", 4, 256)

test_until_battery_low ==
    /\ pc = "idle"
    /\ UnitCommand("test_until_battery_low", 5, 256)

switch_beep ==
    /\ pc = "idle"
    /\ UnitCommand("switch_beep", 7, 256)

abort_test ==
    /\ pc = "idle"
    /\ UnitCommand("abort_test", 11, 256)

shutdown_default_length ==
    /\ pc = "idle"
    /\ UnitCommand("shutdown", 105, 256)

shutdown ==
    /\ pc = "idle"
    /\ UnitCommand("shutdown", 105, 2460)

\* the read of test_with_time once calculate_time returned Ok(length)
TimedRead(length) ==
    /\ \E r \in Replies(6, length) :
        /\ reply' = r
        /\ result' = IF get_string_descriptor(6, length, r).kind = "Ok"
                     THEN Ok(UNIT)
                     ELSE get_string_descriptor(6, length, r)
    /\ transfers' = <<ReadEv(6, length)>>
    /\ pc' = "done"

test_with_time_read_before_check ==
    /\ pc = "idle"
    /\ \E m \in U8 :
        /\ minutes' = m
        /\ LET t == calculate_time(m, overflow_checks)
           IN  \/ /\ t.kind = "InvalidTime"
                  /\ \E r \in Replies(6, 256) : reply' = r
                  /\ result' = t
                  /\ transfers' = <<ReadEv(6, 256)>>
                  /\ pc' = "done"
               \/ /\ t.kind = "Panic"
                  /\ result' = t
                  /\ transfers' = <<>>
                  /\ reply' = NoReply
                  /\ pc' = "panicked"
               \/ /\ t.kind = "Ok"
                  /\ TimedRead(t.val)
    /\ op' = "test_with_time"
    /\ UNCHANGED overflow_checks

test_with_time ==
    /\ pc = "idle"
    /\ \E m \in U8 :
        /\ minutes' = m
        /\ LET t == calculate_time(m, overflow_checks)
           IN  \/ /\ t.kind = "InvalidTime"
                  /\ result' = t
                  /\ transfers' = <<>>
                  /\ reply' = NoReply
                  /\ pc' = "done"
               \/ /\ t.kind = "Panic"
                  /\ result' = t
                  /\ transfers' = <<>>
                  /\ reply' = NoReply
                  /\ pc' = "panicked"
               \/ /\ t.kind = "Ok"
                  /\ TimedRead(t.val)
    /\ op' = "test_with_time"
    /\ UNCHANGED overflow_checks

\* let status_str = self.get_string_descriptor(3, 256)?; UpsStatus::from_str(&status_str)
StatusRead(r) ==
    IF get_string_descriptor(3, 256, r).kind = "Ok"
    THEN from_str(get_string_descriptor(3, 256, r).val)
    ELSE get_string_descriptor(3, 256, r)

get_status_no_ack ==
    /\ pc = "idle"
    /\ \E r \in Replies(3, 256) :
        /\ reply' = r
        /\ result' = StatusRead(r)
    /\ op' = "get_status_no_ack"
    /\ transfers' = <<ReadEv(3, 256)>>
    /\ pc' = "done"
    /\ UNCHANGED <<overflow_checks, minutes>>

get_status_ack_ignoring_failure ==
    /\ pc = "idle"
    /\ \E r \in Replies(3, 256) :
        /\ reply' = r
        /\ result' = NoResult
        /\ pc' = "get_status_sleep"
    /\ op' = "get_status"
    /\ transfers' = <<ReadEv(3, 256)>>
    /\ UNCHANGED <<overflow_checks, minutes>>

\* let _ = self.get_string_descriptor(3, 256)?;
get_status_ack ==
    /\ pc = "idle"
    /\ \E r \in Replies(3, 256) :
        /\ reply' = r
        /\ IF get_string_descriptor(3, 256, r).kind = "Ok"
           THEN /\ result' = NoResult
                /\ pc' = "get_status_sleep"
           ELSE /\ result' = get_string_descriptor(3, 256, r)
                /\ pc' = "done"
    /\ op' = "get_status"
    /\ transfers' = <<ReadEv(3, 256)>>
    /\ UNCHANGED <<overflow_checks, minutes>>

\* std::thread::sleep(Duration::from_secs(1)); the first string has been dropped
get_status_sleep ==
    /\ pc = "get_status_sleep"
    /\ transfers' = Append(transfers, SleepEv)
    /\ reply' = NoReply
    /\ pc' = "get_status_read"
    /\ UNCHANGED <<overflow_checks, op, minutes, result>>

\* let status_str = self.get_string_descriptor(3, 256)?; UpsStatus::from_str(&status_str)
get_status_read ==
    /\ pc = "get_status_read"
    /\ \E r \in Replies(3, 256) :
        /\ reply' = r
        /\ result' = StatusRead(r)
    /\ transfers' = Append(transfers, ReadEv(3, 256))
    /\ pc' = "done"
    /\ UNCHANGED <<overflow_checks, op, minutes>>

\* the caller takes the returned value; the handle is ready for the next call
Return ==
    /\ pc = "done"
    /\ pc' = "idle"
    /\ op' = "none"
    /\ minutes' = 0
    /\ transfers' = <<>>
    /\ reply' = NoReply
    /\ result' = NoResult
    /\ UNCHANGED overflow_checks

Next ==
    \/ get_name
    \/ get_status_ack
    \/ get_status_sleep
    \/ get_status_read
    \/ get_status_no_ack
    \/ test
    \/ test_until_battery_low
    \/ test_with_time
    \/ switch_beep
    \/ abort_test
    \/ get_rating
    \/ shutdown
    \/ Return

Spec == Init /\ [][Next]_vars

-----------------------------------------------------------------------------
(* Properties.                                                             *)

\* the time code over the mathematical integers
TimeCodeRef(m) ==
    IF m <= 9 THEN 100 + m
    ELSE IF m <= 19 THEN 125 + (m - 19)
    ELSE 132 + (m - (((m - 20) \div 10) * 10 + 20)) * 7

TimedCall == op = "test_with_time" /\ pc \in {"done", "panicked"}

\* C1: for every minutes in 1..99, calculate_time succeeds with the piecewise
\* reference value (which test_with_time then requests as the length).
C1_TimeCodeMatchesReference ==
    (TimedCall /\ minutes \in 1..99) =>
        /\ calculate_time(minutes, overflow_checks) = Ok(TimeCodeRef(minutes))
        /\ pc = "done"
        /\ transfers = <<ReadEv(6, TimeCodeRef(minutes))>>

\* C10: for every minutes in 1..99, no intermediate value of calculate_time
\* leaves 0..255, so the call neither wraps nor aborts.
C10_NoOverflow ==
    (TimedCall /\ minutes \in 1..99) =>
        /\ ~time_value(minutes).overflow
        /\ pc # "panicked"

StatusReadEv == ReadEv(3, 256)
ReadFailed == reply.kind = "Err" \/ (reply.kind = "Ok" /\ Len(reply.bytes) < 3)
ReadSucceeded == reply.kind = "Ok" /\ Len(reply.bytes) >= 3

\* C2 as stated: every get_status issues exactly two status reads with the sleep
\* between them, every get_status_no_ack exactly one, whatever the device returns.
C2_AlwaysTwoReads ==
    /\ (pc = "done" /\ op = "get_status") =>
            transfers = <<StatusReadEv, SleepEv, StatusReadEv>>
    /\ (pc = "done" /\ op = "get_status_no_ack") => transfers = <<StatusReadEv>>

\* C2 amended: get_status issues its second status read only after a first read
\* that succeeded and the 1-second sleep; when the first read fails it returns
\* after that one read without sleeping.  get_status_no_ack issues exactly one.
C2_StatusReads ==
    /\ (pc = "done" /\ op = "get_status_no_ack") => transfers = <<StatusReadEv>>
    /\ op = "get_status" =>
        \/ pc = "done" /\ transfers = <<StatusReadEv>> /\ ReadFailed
              /\ result.kind \in {"Usb", "InvalidResponse"}
        \/ pc = "get_status_sleep" /\ transfers = <<StatusReadEv>> /\ ReadSucceeded
        \/ pc = "get_status_read" /\ transfers = <<StatusReadEv, SleepEv>>
        \/ pc = "done" /\ transfers = <<StatusReadEv, SleepEv, StatusReadEv>>

C2_Witness ==
    /\ pc = "done" /\ op = "get_status"
    /\ transfers = <<StatusReadEv, SleepEv, StatusReadEv>>
    /\ result.kind = "Ok"

\* a status command whose last read succeeded, so that from_str ran on its string
StatusParsed ==
    /\ pc = "done"
    /\ op \in {"get_status", "get_status_no_ack"}
    /\ ReadSucceeded
StatusTokens == split_whitespace(get_string_descriptor(3, 256, reply).val)
FirstNumeric(toks, n) == \A i \in 1..n : parse_f64(toks[i]).ok

\* C3 as stated: a Status Record is returned only for exactly seven tokens, all
\* numeric; every other line (fewer, more, non-numeric) gives InvalidResponse.
C3_ExactlySevenTokens ==
    StatusParsed =>
        /\ result.kind = "Ok" <=>
              (Len(StatusTokens) = 7 /\ FirstNumeric(StatusTokens, 7))
        /\ result.kind # "Ok" => result = Err("InvalidResponse", "")

\* C3 amended: a Status Record is returned exactly when the line has at least
\* seven tokens and the first seven are numeric; its fields are those seven in
\* order and later tokens are ignored; otherwise InvalidResponse, no record.
C3_FirstSevenTokens ==
    StatusParsed =>
        IF Len(StatusTokens) >= 7 /\ FirstNumeric(StatusTokens, 7)
        THEN /\ result.kind = "Ok"
             /\ result.val.input_voltage = parse_f64(StatusTokens[1]).val
             /\ result.val.input_fault_voltage = parse_f64(StatusTokens[2]).val
             /\ result.val.output_voltage = parse_f64(StatusTokens[3]).val
             /\ result.val.output_current = parse_f64(StatusTokens[4]).val
             /\ result.val.input_frequency = parse_f64(StatusTokens[5]).val
             /\ result.val.battery_voltage = parse_f64(StatusTokens[6]).val
             /\ result.val.temperature = parse_f64(StatusTokens[7]).val
        ELSE result = Err("InvalidResponse", "")

C3_Witness ==
    /\ StatusParsed
    /\ Len(StatusTokens) = 8
    /\ ~parse_f64(StatusTokens[8]).ok
    /\ result.kind = "Ok"
    /\ result.val.output_current = F64("finite", FALSE, 5, 1)

StringReturned == pc = "done" /\ op \in {"get_name", "get_rating"} /\ result.kind = "Ok"
InFilterRange(b) == b >= 32 /\ b <= 126 /\ b \notin {34, 96, 40}

\* C4: the returned string is built only from the bytes at positions 2..N of
\* the response; the two header bytes never contribute a character.
C4_HeaderExcluded ==
    StringReturned =>
        result.val = SelectSeq(SubSeq(reply.bytes, 3, Len(reply.bytes)), InFilterRange)

\* the (descriptor index, max length) pair of each command
CommandPair(o, m) ==
    CASE o = "get_name" -> <<2, 256>>
      [] o = "get_status" -> <<3, 256>>
      [] o = "get_status_no_ack" -> <<3, 256>>
      [] o = "test" -> <<4, 256>>
      [] o = "test_until_battery_low" -> <<5, 256>>
      [] o = "test_with_time" -> <<6, calculate_time(m, overflow_checks).val>>
      [] o = "switch_beep" -> <<7, 256>>
      [] o = "abort_test" -> <<11, 256>>
      [] o = "get_rating" -> <<13, 256>>
      [] o = "shutdown" -> <<105, 2460>>

\* C5: every read a command issues carries the command's (index, max length)
\* pair, test_with_time's length being calculate_time(minutes); a command that
\* got past its argument check has issued its first read.
C5_CommandTable ==
    /\ \A i \in 1..Len(transfers) :
          transfers[i].ev = "read" =>
              <<transfers[i].index, transfers[i].length>> = CommandPair(op, minutes)
    /\ (op \notin {"none", "test_with_time"}) =>
          (Len(transfers) >= 1 /\ transfers[1].ev = "read")
    /\ (op = "test_with_time" /\ pc = "done"
            /\ calculate_time(minutes, overflow_checks).kind = "Ok") =>
          (Len(transfers) = 1 /\ transfers[1].ev = "read")

C5_Witness ==
    /\ pc = "done" /\ op = "test_with_time" /\ minutes = 29
    /\ transfers = <<ReadEv(6, 195)>>

\* C6: test_with_time(0) and test_with_time(100..255) fail with InvalidTime
\* without any control transfer.
C6_InvalidTimeBeforeRead ==
    (op = "test_with_time" /\ (minutes = 0 \/ minutes > 99)) =>
        /\ pc = "done"
        /\ result = Err("InvalidTime", "")
        /\ transfers = <<>>
        /\ reply = NoReply

C6_Witness ==
    /\ op = "test_with_time" /\ minutes = 100
    /\ result.kind = "InvalidTime" /\ transfers = <<>>

\* C7: a read that fails ends the operation: a transport error is returned as
\* that Usb error, fewer than 3 bytes as InvalidResponse, and the operation
\* issues no further transfer.
C7_FailuresTerminal ==
    /\ [](ReadFailed =>
            /\ pc = "done"
            /\ transfers[Len(transfers)].ev = "read"
            /\ IF reply.kind = "Err"
               THEN result = Err("Usb", reply.err)
               ELSE result = Err("InvalidResponse", ""))
    /\ [][ReadFailed => Len(transfers') <= Len(transfers)]_vars

C7_Witness ==
    /\ op = "get_status" /\ pc = "done"
    /\ reply = Transferred(<<65, 65>>)
    /\ transfers = <<StatusReadEv>>
    /\ result.kind = "InvalidResponse"

\* positions of d holding a byte of the filter range
KeptPositions(d) == {i \in 1..Len(d) : InFilterRange(d[i])}
\* s is d with the bytes outside the filter range removed, order kept
IsCompaction(s, d) ==
    /\ Len(s) = Cardinality(KeptPositions(d))
    /\ \A i \in KeptPositions(d) :
          s[Cardinality({j \in KeptPositions(d) : j <= i})] = d[i]

\* C8: is_valid_char(b) iff 32 <= b <= 126 and b is none of 34, 96, 40; the
\* decoded string is the received bytes with the failing ones dropped, the
\* others kept in order, each as the character of its own code.
C8_FilterCompaction ==
    /\ \A b \in U8 : is_valid_char(b) <=> InFilterRange(b)
    /\ StringReturned => IsCompaction(result.val, reply.bytes)

C8_Witness ==
    /\ StringReturned
    /\ \E i, j, k \in 1..Len(reply.bytes) :
          /\ i < j /\ j < k
          /\ InFilterRange(reply.bytes[i])
          /\ ~InFilterRange(reply.bytes[j])
          /\ InFilterRange(reply.bytes[k])
          /\ reply.bytes[i] # reply.bytes[k]
    /\ Len(result.val) >= 2

TimedReadIssued ==
    op = "test_with_time" /\ pc = "done" /\ minutes \in 10..19 /\ Len(transfers) = 1
EarlierCodes(m) ==
    {calculate_time(m1, overflow_checks).val :
        m1 \in {x \in 10..(m - 1) : calculate_time(x, overflow_checks).kind = "Ok"}}

\* C9 as stated: in 10..19 a larger minutes value gets a smaller time code.
C9_SmallerForLarger ==
    TimedReadIssued => \A c \in EarlierCodes(minutes) : c > transfers[1].length

\* C9 amended: in 10..19 a larger minutes value gets a larger time code.  In a
\* build whose u8 arithmetic wraps, for m1 < m2 both calls return a code and the
\* code of m1 is the smaller one.  In a build with overflow checks the call
\* panics for every minutes in 10..18 and returns a code, 125, only for 19.
C9_LargerForLarger ==
    (TimedCall /\ minutes \in 10..19) =>
        IF overflow_checks
        THEN IF minutes <= 18
             THEN pc = "panicked" /\ result.kind = "Panic" /\ transfers = <<>>
             ELSE pc = "done" /\ transfers = <<ReadEv(6, 125)>>
        ELSE /\ pc = "done"
             /\ Len(transfers) = 1
             /\ \A m1 \in 10..(minutes - 1) :
                   /\ calculate_time(m1, overflow_checks).kind = "Ok"
                   /\ calculate_time(m1, overflow_checks).val < transfers[1].length

C9_Witness ==
    /\ ~overflow_checks
    /\ TimedReadIssued /\ minutes = 19
    /\ transfers[1].length = 125
    /\ EarlierCodes(minutes) = 116..124

====
